---- MODULE Spec2Model ----
(***************************************************************************)
(* Verification model of zerobrew's command-line front end and source      *)
(* build executor:                                                         *)
(*   zb_io/src/build/executor.rs    BuildExecutor::execute, run_build,     *)
(*                                  stream_output_and_capture_tail         *)
(*   zb_cli/src/commands/bundle.rs  dump_to_file, load_manifest,           *)
(*                                  parse_brewfile_entry                   *)
(*   zb_cli/src/cli.rs              parse_concurrency                      *)
(*   zb_cli/src/main.rs, init.rs    run, ensure_init, run_init             *)
(*   zb_cli/src/commands/reset.rs,  reset::execute, uninstall::execute     *)
(*                   uninstall.rs                                          *)
(*                                                                         *)
(* Text is modelled as sequences of one-character strings, so formatting   *)
(* and parsing are computed character by character.                        *)
(***************************************************************************)
EXTENDS Integers, Sequences, FiniteSets, TLC

VARIABLES
    \* ---- build executor (executor.rs) ----
    epc,          \* position inside BuildExecutor::execute / run_build
    workDir,      \* <prefix>/tmp/build/<name>/ exists
    cellarDir,    \* plan.cellar_path exists
    cellarMade,   \* plan.cellar_path was created by this execute call
    cellarFiles,  \* the interpreter has put files under plan.cellar_path
    child,        \* the interpreter process: state, exit status, lines written
    status,       \* run_build's local `status`, set when child.wait() returned it
    pipe,         \* per stream: lines written by the child, not yet read
    task,         \* per stream: state of the reader task
    tail,         \* per stream: the VecDeque `tail` of the reader task
    term,         \* per stream: lines echoed to the terminal
    eresult,      \* value returned by execute
    \* ---- manifest line parsing (bundle.rs, load_manifest loop body) ----
    line,         \* one line of a manifest
    entry,        \* what the loop body of load_manifest made of it
    ppc,          \* whether the line has been parsed
    \* ---- bundle command (bundle.rs) ----
    installed,    \* installer.list_installed(): names of the installed kegs
    manifest,     \* the file at the --file path: [exists, content]
    bcmd,         \* the bundle sub-command running or last run
    bpc,          \* its position
    loaded,       \* install_from_file: what load_manifest returned
    todo,         \* install_from_file: formulas the for loop has not reached
    attempted,    \* formulas handed to install::execute by this command
    dumpOf,       \* the installed list written by the last successful dump
    dforce,       \* dump_to_file: the `force` argument of the last dump
    listed,       \* dump_to_file: the last dump called installer.list_installed()
    bresult,      \* value returned by the sub-command
    \* ---- uninstall command (commands/uninstall.rs) ----
    uformula,     \* the `formula` argument: Some(name), or None for all
    upc,          \* position inside uninstall::execute
    ulist,        \* the local `installed`: what list_installed() returned
    utodo,        \* kegs the for loop has not reached
    ucalls,       \* names installer.uninstall was called with, in order
    uresult,      \* value returned by uninstall::execute
    \* ---- the zb process (main.rs, init.rs, commands/reset.rs) ----
    argv,         \* the command line: command, --concurrency, --auto-init, --yes
    cpc,          \* position inside main / run
    cli,          \* the parsed Cli
    rootDir,      \* the root directory: absent, readonly or writable
    prefixDir,    \* the prefix directory: absent, readonly or writable
    prompts,      \* the prompts printed so far
    stdinLog,     \* what each read of a line from standard input returned
    initRuns,     \* number of calls of run_init
    installerWith,\* the concurrency create_installer was called with
    bodyRuns,     \* number of command bodies run
    cresult,      \* value returned by run
    exitCode,     \* exit code of the process, -1 while it runs
    stderrLog     \* lines printed on stderr

evars ==
    <<epc, workDir, cellarDir, cellarMade, cellarFiles, child, status, pipe,
      task, tail, term, eresult>>

pvars ==
    <<line, entry, ppc>>

bvars ==
    <<installed, manifest, bcmd, bpc, loaded, todo, attempted, dumpOf, dforce,
      listed, bresult>>

cvars ==
    <<argv, cpc, cli, rootDir, prefixDir, prompts, stdinLog, initRuns,
      installerWith, bodyRuns, cresult, exitCode, stderrLog>>

uvars ==
    <<uformula, upc, ulist, utodo, ucalls, uresult>>

vars ==
    <<evars, pvars, bvars, cvars, uvars>>

nonExec ==
    <<pvars, bvars, cvars, uvars>>

nonParse ==
    <<evars, bvars, cvars, uvars>>

nonBundle ==
    <<evars, pvars, cvars, uvars>>

nonCli ==
    <<evars, pvars, bvars, uvars>>

\* What uninstall leaves alone: everything but its own state and the
\* installed-set.
nonUninstall ==
    <<evars, pvars, cvars, manifest, bcmd, bpc, loaded, todo, attempted, dumpOf,
      dforce, listed, bresult>>

(***************************************************************************)
(* Generic helpers.                                                        *)
(***************************************************************************)
Range(s) ==
    {s[i] : i \in 1..Len(s)}

\* All sequences over S of length at most n.
SeqsUpTo(S, n) ==
    UNION {[1..k -> S] : k \in 0..n}

\* s contains t as a contiguous run (str::contains).
Contains(s, t) ==
    \E i \in 0..(Len(s) - Len(t)) : SubSeq(s, i + 1, i + Len(t)) = t

(***************************************************************************)
(* Text: a string is a sequence of one-character strings.                  *)
(***************************************************************************)
DQ == "\""
SQ == "'"
HASH == "#"
NL == "\n"
CR == "\r"
SP == " "
TAB == "\t"

\* char::is_whitespace, for the characters that occur in the model.
IsWhitespace(c) ==
    c \in {SP, TAB, CR, NL}

\* Option<T>
None ==
    [some |-> FALSE, v |-> <<>>]

Some(x) ==
    [some |-> TRUE, v |-> x]

\* str::starts_with
StartsWith(s, p) ==
    Len(s) >= Len(p) /\ SubSeq(s, 1, Len(p)) = p

\* s[n..]
From(s, n) ==
    SubSeq(s, n + 1, Len(s))

\* str::find(c): the zero-based index of the first c, or -1 for None.
Find(s, c) ==
    IF \E i \in 1..Len(s) : s[i] = c
      THEN (CHOOSE i \in 1..Len(s) : s[i] = c /\ \A j \in 1..(i - 1) : s[j] # c) - 1
      ELSE -1

\* str::trim_start
RECURSIVE TrimStart(_)
TrimStart(s) ==
    IF s # <<>> /\ IsWhitespace(Head(s)) THEN TrimStart(Tail(s)) ELSE s

\* str::trim_end
RECURSIVE TrimEnd(_)
TrimEnd(s) ==
    IF s # <<>> /\ IsWhitespace(s[Len(s)]) THEN TrimEnd(SubSeq(s, 1, Len(s) - 1)) ELSE s

\* str::trim
Trim(s) ==
    TrimEnd(TrimStart(s))

\* line.split('#').next().unwrap_or(""): the text before the first '#'.
BeforeHash(s) ==
    IF Find(s, HASH) = -1 THEN s ELSE SubSeq(s, 1, Find(s, HASH))

\* str::lines: pieces end at '\n'; a piece loses its '\n' and then one '\r'
\* before it; text after the last '\n' is a last line unless it is empty.
RECURSIVE Lines(_)
Lines(s) ==
    IF s = <<>> THEN <<>>
    ELSE LET n == Find(s, NL)
         IN  IF n = -1 THEN <<s>>
             ELSE LET piece == SubSeq(s, 1, n)
                      stripped == IF piece # <<>> /\ piece[Len(piece)] = CR
                                    THEN SubSeq(piece, 1, Len(piece) - 1)
                                    ELSE piece
                  IN  <<stripped>> \o Lines(From(s, n + 1))

\* Concatenation of a sequence of strings.
RECURSIVE Concat(_)
Concat(ss) ==
    IF ss = <<>> THEN <<>> ELSE Head(ss) \o Concat(Tail(ss))

(***************************************************************************)
(* Manifest parsing (bundle.rs).                                           *)
(***************************************************************************)
KwTap == <<"t", "a", "p">>
KwBrew == <<"b", "r", "e", "w">>
KwCask == <<"c", "a", "s", "k">>

\* parse_quoted_directive accepting the double quote only.
ParseQuotedDirectiveDoubleOnly(ln, directive) ==
    IF ~StartsWith(ln, directive) THEN None
    ELSE LET rest == TrimStart(From(ln, Len(directive)))
         IN  IF rest = <<>> THEN None
             ELSE IF Head(rest) # DQ THEN None
             ELSE LET after == From(rest, 1)
                      end == Find(after, Head(rest))
                  IN  IF end = -1 THEN None ELSE Some(SubSeq(after, 1, end))

parse_quoted_directive(ln, directive) ==
    IF ~StartsWith(ln, directive) THEN None
    ELSE LET rest == TrimStart(From(ln, Len(directive)))
         IN  IF rest = <<>> THEN None
             ELSE IF Head(rest) # DQ /\ Head(rest) # SQ THEN None
             ELSE LET after == From(rest, 1)
                      end == Find(after, Head(rest))
                  IN  IF end = -1 THEN None ELSE Some(SubSeq(after, 1, end))

parse_brewfile_entry(ln) ==
    IF StartsWith(ln, KwTap \o <<SP>>) THEN None
    ELSE IF parse_quoted_directive(ln, KwCask).some
      THEN Some(KwCask \o <<":">> \o parse_quoted_directive(ln, KwCask).v)
    ELSE IF parse_quoted_directive(ln, KwBrew).some
      THEN Some(parse_quoted_directive(ln, KwBrew).v)
    ELSE Some(ln)

\* The body of load_manifest's `for line in contents.lines()` up to the
\* call of parse_brewfile_entry: strip the comment, trim, skip when empty.
ManifestLineEntry(ln) ==
    LET e == Trim(BeforeHash(ln))
    IN  IF e = <<>> THEN None ELSE parse_brewfile_entry(e)

\* ManifestStep without the `seen` set: every parsed entry is pushed.
ManifestStepNoSeen(acc, ln) ==
    LET parsed == ManifestLineEntry(ln)
    IN  IF parsed.some
          THEN [formulas |-> Append(acc.formulas, parsed.v), seen |-> acc.seen \cup {parsed.v}]
          ELSE acc

\* One iteration of the loop of load_manifest on (formulas, seen).
ManifestStep(acc, ln) ==
    LET parsed == ManifestLineEntry(ln)
    IN  IF parsed.some /\ parsed.v \notin acc.seen
          THEN [formulas |-> Append(acc.formulas, parsed.v), seen |-> acc.seen \cup {parsed.v}]
          ELSE acc

RECURSIVE ManifestLoop(_, _)
ManifestLoop(acc, lns) ==
    IF lns = <<>> THEN acc ELSE ManifestLoop(ManifestStep(acc, Head(lns)), Tail(lns))

MsgReadFailed == <<"failed to read manifest">>
MsgNoFormulas == <<"manifest did not contain any formulas">>
MsgExists == <<"file already exists (use --force to overwrite)">>
MsgWriteFailed == <<"failed to write">>

\* load_manifest accepting a manifest without formulas.
LoadManifestAllowEmpty(file) ==
    IF ~file.exists THEN [kind |-> "FileError", message |-> MsgReadFailed, value |-> <<>>]
    ELSE LET acc == ManifestLoop([formulas |-> <<>>, seen |-> {}], Lines(file.content))
         IN  [kind |-> "Ok", message |-> <<>>, value |-> acc.formulas]

load_manifest(file) ==
    IF ~file.exists THEN [kind |-> "FileError", message |-> MsgReadFailed, value |-> <<>>]
    ELSE LET acc == ManifestLoop([formulas |-> <<>>, seen |-> {}], Lines(file.content))
         IN  IF acc.formulas = <<>>
               THEN [kind |-> "FileError", message |-> MsgNoFormulas, value |-> <<>>]
               ELSE [kind |-> "Ok", message |-> <<>>, value |-> acc.formulas]

\* dump_to_file writing the names without the quotes.
DumpContentUnquoted(kegs) ==
    Concat([i \in 1..Len(kegs) |-> KwBrew \o <<SP>> \o kegs[i] \o <<NL>>])

\* The content dump_to_file builds: format!("brew \"{}\"\n", keg.name) per keg.
DumpContent(kegs) ==
    Concat([i \in 1..Len(kegs) |-> KwBrew \o <<SP, DQ>> \o kegs[i] \o <<DQ, NL>>])

(***************************************************************************)
(* Command line (cli.rs).  A usize value is kept as its decimal digits     *)
(* without leading zeros, so values up to and beyond usize::MAX are exact. *)
(***************************************************************************)
Digits == <<"0", "1", "2", "3", "4", "5", "6", "7", "8", "9">>

IsDigit(c) ==
    \E d \in 1..10 : Digits[d] = c

DigitValue(c) ==
    (CHOOSE d \in 1..10 : Digits[d] = c) - 1

\* The digits of a number without its leading zeros; zero is <<"0">>.
RECURSIVE StripZeros(_)
StripZeros(ds) ==
    IF Len(ds) > 1 /\ Head(ds) = "0" THEN StripZeros(Tail(ds)) ELSE ds

\* a <= b for two numbers given by their digits without leading zeros.
RECURSIVE DigitsLeq(_, _)
DigitsLeq(a, b) ==
    IF Len(a) # Len(b) THEN Len(a) < Len(b)
    ELSE IF a = <<>> THEN TRUE
    ELSE IF Head(a) # Head(b) THEN DigitValue(Head(a)) < DigitValue(Head(b))
    ELSE DigitsLeq(Tail(a), Tail(b))

\* usize::MAX of the 64-bit targets zerobrew runs on: 18446744073709551615.
UsizeMax ==
    <<"1", "8", "4", "4", "6", "7", "4", "4", "0", "7",
      "3", "7", "0", "9", "5", "5", "1", "6", "1", "5">>

\* str::parse::<usize>(): an optional '+', then one or more decimal digits
\* whose value fits in usize; anything else is an error.
ParseUsize(text) ==
    LET ds == IF text # <<>> /\ Head(text) = "+" THEN Tail(text) ELSE text
    IN  IF ds = <<>> THEN [ok |-> FALSE, v |-> <<>>]
        ELSE IF \E i \in 1..Len(ds) : ~IsDigit(ds[i]) THEN [ok |-> FALSE, v |-> <<>>]
        ELSE IF ~DigitsLeq(StripZeros(ds), UsizeMax) THEN [ok |-> FALSE, v |-> <<>>]
        ELSE [ok |-> TRUE, v |-> StripZeros(ds)]

MsgInvalidValue == <<"invalid value: expected a positive integer">>
MsgAtLeastOne == <<"concurrency must be at least 1">>

\* parse_concurrency without the check for zero.
ParseConcurrencyNoZeroCheck(value) ==
    LET parsed == ParseUsize(value)
    IN  IF ~parsed.ok THEN [ok |-> FALSE, v |-> <<>>, message |-> MsgInvalidValue]
        ELSE [ok |-> TRUE, v |-> parsed.v, message |-> <<>>]

parse_concurrency(value) ==
    LET parsed == ParseUsize(value)
    IN  IF ~parsed.ok THEN [ok |-> FALSE, v |-> <<>>, message |-> MsgInvalidValue]
        ELSE IF parsed.v = <<"0">> THEN [ok |-> FALSE, v |-> <<>>, message |-> MsgAtLeastOne]
        ELSE [ok |-> TRUE, v |-> parsed.v, message |-> <<>>]

\* #[arg(long, default_value = "20", value_parser = parse_concurrency)]
DefaultConcurrency == <<"2", "0">>

\* char::to_ascii_lowercase for the letters that occur in answers.
ToAsciiLower(c) ==
    CASE c = "Y" -> "y"
      [] c = "E" -> "e"
      [] c = "S" -> "s"
      [] c = "N" -> "n"
      [] c = "O" -> "o"
      [] OTHER -> c

\* str::eq_ignore_ascii_case
EqIgnoreAsciiCase(a, b) ==
    /\ Len(a) = Len(b)
    /\ \A i \in 1..Len(a) : ToAsciiLower(a[i]) = ToAsciiLower(b[i])

PromptInit == "Initialize now? [Y/n] "
PromptReset == "Continue? [y/N] "

\* needs_init(root, prefix); a directory is "absent", "readonly" or "writable".
\* needs_init looking at the root only.
NeedsInitRootOnly(r, p) ==
    ~(r # "absent" /\ r = "writable")

needs_init(r, p) ==
    LET root_ok == r # "absent" /\ r = "writable"
        prefix_ok == p # "absent" /\ p = "writable"
    IN  ~(root_ok /\ prefix_ok)

\* ensure_init: the answer read from stdin declines the initialization.
Declines(input) ==
    LET t == Trim(input)
    IN  /\ t # <<>>
        /\ ~EqIgnoreAsciiCase(t, <<"y">>)
        /\ ~EqIgnoreAsciiCase(t, <<"y", "e", "s">>)

\* read_line returned Err (the input is not UTF-8, or the read failed): the
\* `.unwrap()` on it panics.
ReadFailed ==
    <<"<io-error>">>

\* What the runtime prints when the main thread panics.
MsgPanicked ==
    <<"thread 'main' panicked">>

\* main without the exit(1) of the error branch.
ExitCodeIgnoresError(r) ==
    0

\* main, lines 18-22: exit(1) when run returned an error, otherwise main
\* returns and the process ends with 0.
ExitCodeOf(r) ==
    IF r.kind = "Ok" THEN 0 ELSE 1

(***************************************************************************)
(* Build executor.                                                         *)
(***************************************************************************)
Streams == {"stdout", "stderr"}

\* Bounds on what one interpreter run prints.
MaxChildLines == 2

\* Lines a pipe holds before a write to it blocks.
PipeCapacity == 1

\* A line that is not valid UTF-8: next_line() returns an io::Error for it.
BadUtf8 == "<invalid-utf8>"

StreamLines(s) ==
    IF s = "stdout" THEN {"out-line", BadUtf8} ELSE {"boom-from-stderr", BadUtf8}

\* ExitStatus::code(): Some(n), or None when a signal ended the process.
Exited(n) ==
    [signal |-> FALSE, code |-> n]

Signaled ==
    [signal |-> TRUE, code |-> -1]

ExitStatuses ==
    {Exited(0), Exited(1), Exited(7), Signaled}

\* ExitStatus::success()
Success(st) ==
    ~st.signal /\ st.code = 0

\* format!("{:?}", status.code()) as tokens: Some(<n>) or None.
DebugCode(st) ==
    IF st.signal THEN <<"None">> ELSE <<"Some(", ToString(st.code), ")">>

\* [String]::join(sep)
RECURSIVE Join(_, _)
Join(lines, sep) ==
    IF lines = <<>> THEN <<>>
    ELSE IF Len(lines) = 1 THEN <<lines[1]>>
    ELSE <<lines[1], sep>> \o Join(Tail(lines), sep)

TAIL_LINES == 40

NoResult ==
    [kind |-> "none", message |-> <<>>]

Ok ==
    [kind |-> "Ok", message |-> <<>>]

FileError(m) ==
    [kind |-> "FileError", message |-> m]

ExecutionError(m) ==
    [kind |-> "ExecutionError", message |-> m]

StoreCorruption(m) ==
    [kind |-> "StoreCorruption", message |-> m]

\* The loop body without the pop_front of a full buffer.
PushTailNoEvict(t, ln) ==
    Append(t, ln)

\* One step of the loop body of stream_output_and_capture_tail on `tail`.
PushTail(t, ln) ==
    IF Len(t) = TAIL_LINES THEN Append(Tail(t), ln) ELSE Append(t, ln)

\* FailureMessage with the fallback reversed: the stdout tail is preferred.
FailureMessageStdoutFirst(st, stdout_tail, stderr_tail) ==
    LET chosen == IF stdout_tail # <<>> THEN stdout_tail ELSE stderr_tail
        msg == <<"source build failed (exit code: ">> \o DebugCode(st) \o <<")">>
    IN  IF chosen # <<>> THEN msg \o <<"\n">> \o Join(chosen, "\n") ELSE msg

\* The failure message of run_build, as a sequence of text tokens: the
\* header "source build failed (exit code: {:?})" and, when the chosen tail
\* is not empty, '\n' followed by the tail joined with '\n'.
FailureMessage(st, stdout_tail, stderr_tail) ==
    LET chosen == IF stderr_tail # <<>> THEN stderr_tail ELSE stdout_tail
        msg == <<"source build failed (exit code: ">> \o DebugCode(st) \o <<")">>
    IN  IF chosen # <<>> THEN msg \o <<"\n">> \o Join(chosen, "\n") ELSE msg

NoChild ==
    [state |-> "none", status |-> Signaled, wrote |-> [s \in Streams |-> 0]]

\* `status` before child.wait() has returned.
NoStatus ==
    [signal |-> TRUE, code |-> -2]

(***************************************************************************)
(* Values of the parts of the state a specification does not use.          *)
(***************************************************************************)
NoLoad ==
    [kind |-> "none", message |-> <<>>, value |-> <<>>]

NoFile ==
    [exists |-> FALSE, content |-> <<>>]

IdleParse ==
    /\ line = <<>>
    /\ entry = None
    /\ ppc = "idle"

IdleBundle ==
    /\ installed = <<>>
    /\ manifest = NoFile
    /\ bcmd = "none"
    /\ bpc = "idle"
    /\ loaded = NoLoad
    /\ todo = <<>>
    /\ attempted = <<>>
    /\ dumpOf = None
    /\ dforce = FALSE
    /\ listed = FALSE
    /\ bresult = [kind |-> "none", message |-> <<>>]

IdleUninstall ==
    /\ uformula = None
    /\ upc = "idle"
    /\ ulist = None
    /\ utodo = <<>>
    /\ ucalls = <<>>
    /\ uresult = [kind |-> "none", message |-> <<>>]

IdleCli ==
    /\ argv = [command |-> "none", concurrency |-> None, auto_init |-> FALSE, yes |-> FALSE]
    /\ cpc = "idle"
    /\ cli = [concurrency |-> <<>>, auto_init |-> FALSE, command |-> "none", yes |-> FALSE]
    /\ rootDir = "absent"
    /\ prefixDir = "absent"
    /\ prompts = <<>>
    /\ stdinLog = <<>>
    /\ initRuns = 0
    /\ installerWith = None
    /\ bodyRuns = 0
    /\ cresult = [kind |-> "none", message |-> <<>>]
    /\ exitCode = -1
    /\ stderrLog = <<>>

InitExec ==
    /\ IdleUninstall
    /\ IdleParse
    /\ IdleBundle
    /\ IdleCli
    /\ epc = "start"
    /\ workDir \in BOOLEAN
    /\ cellarDir \in BOOLEAN
    /\ cellarMade = FALSE
    /\ cellarFiles = FALSE
    /\ child = NoChild
    /\ status = NoStatus
    /\ pipe = [s \in Streams |-> <<>>]
    /\ task = [s \in Streams |-> "none"]
    /\ tail = [s \in Streams |-> <<>>]
    /\ term = [s \in Streams |-> <<>>]
    /\ eresult = NoResult

\* `return Err(e)` / the `?` operator inside execute: nothing else runs.
Return(r) ==
    /\ epc' = "done"
    /\ eresult' = r

\* prepare_work_dir: remove_dir_all when the directory exists (its error is
\* dropped), then create_dir_all, whose error is returned.
PrepareWorkDir ==
    /\ epc = "start"
    /\ \E removed \in BOOLEAN, created \in BOOLEAN :
          LET afterRemove == IF workDir /\ removed THEN FALSE ELSE workDir
          IN  IF created \/ afterRemove
                THEN /\ workDir' = TRUE
                     /\ epc' = "download"
                     /\ eresult' = eresult
                ELSE /\ workDir' = afterRemove
                     /\ Return(FileError(<<"failed to create work directory">>))
    /\ UNCHANGED <<cellarDir, cellarMade, cellarFiles, child, status, pipe, task, tail, term>>
    /\ UNCHANGED nonExec

\* download_and_extract_source(...).await?
DownloadSource ==
    /\ epc = "download"
    /\ \E ok \in BOOLEAN :
          IF ok THEN epc' = "shim" /\ eresult' = eresult
                ELSE Return([kind |-> "SourceError", message |-> <<"download or extract failed">>])
    /\ UNCHANGED <<workDir, cellarDir, cellarMade, cellarFiles, child, status, pipe, task, tail, term>>
    /\ UNCHANGED nonExec

\* fs::write(&shim_path, SHIM_RUBY).await.map_err(..)?
WriteShim ==
    /\ epc = "shim"
    /\ \E ok \in BOOLEAN :
          IF ok THEN epc' = "cellar" /\ eresult' = eresult
                ELSE Return(FileError(<<"failed to write ruby shim">>))
    /\ UNCHANGED <<workDir, cellarDir, cellarMade, cellarFiles, child, status, pipe, task, tail, term>>
    /\ UNCHANGED nonExec

\* fs::create_dir_all(&plan.cellar_path).await.map_err(..)?
CreateCellarDir ==
    /\ epc = "cellar"
    /\ \E ok \in BOOLEAN :
          IF ok \/ cellarDir
            THEN /\ cellarDir' = TRUE
                 /\ cellarMade' = ~cellarDir
                 /\ epc' = "ruby"
                 /\ eresult' = eresult
            ELSE /\ UNCHANGED <<cellarDir, cellarMade>>
                 /\ Return(FileError(<<"failed to create cellar directory">>))
    /\ UNCHANGED <<workDir, cellarFiles, child, status, pipe, task, tail, term>>
    /\ UNCHANGED nonExec

\* find_ruby().await?
FindRuby ==
    /\ epc = "ruby"
    /\ \E found \in BOOLEAN :
          IF found THEN epc' = "spawn" /\ eresult' = eresult
                   ELSE Return(ExecutionError(<<"ruby not found">>))
    /\ UNCHANGED <<workDir, cellarDir, cellarMade, cellarFiles, child, status, pipe, task, tail, term>>
    /\ UNCHANGED nonExec

\* run_build: Command::new(ruby)...spawn(), then the two tokio::spawn calls.
SpawnChild ==
    /\ epc = "spawn"
    /\ \E ok \in BOOLEAN :
          IF ok
            THEN /\ child' = [NoChild EXCEPT !.state = "running"]
                 /\ task' = [s \in Streams |-> "reading"]
                 /\ epc' = "wait"
                 /\ eresult' = eresult
            ELSE /\ UNCHANGED <<child, task>>
                 /\ Return(ExecutionError(<<"failed to execute ruby shim">>))
    /\ UNCHANGED <<workDir, cellarDir, cellarMade, cellarFiles, status, pipe, tail, term>>
    /\ UNCHANGED nonExec

\* The interpreter prints one line on one of its streams.  The write blocks
\* while the pipe is full; once the reader task has ended, its end of the
\* pipe is closed and the write fails without blocking.
ChildWrite ==
    /\ child.state = "running"
    /\ \E s \in Streams : \E ln \in StreamLines(s) :
          /\ child.wrote[s] < MaxChildLines
          /\ child' = [child EXCEPT !.wrote[s] = @ + 1]
          /\ IF task[s] = "reading"
               THEN /\ Len(pipe[s]) < PipeCapacity
                    /\ pipe' = [pipe EXCEPT ![s] = Append(@, ln)]
               ELSE UNCHANGED pipe
    /\ UNCHANGED <<epc, workDir, cellarDir, cellarMade, cellarFiles, status, task, tail, term, eresult>>
    /\ UNCHANGED nonExec

\* The interpreter installs files under CELLAR/<name>/<version>/.
ChildInstall ==
    /\ child.state = "running"
    /\ ~cellarFiles
    /\ cellarFiles' = TRUE
    /\ UNCHANGED <<epc, workDir, cellarDir, cellarMade, child, status, pipe, task, tail, term, eresult>>
    /\ UNCHANGED nonExec

\* The interpreter ends; its ends of both pipes close.
ChildExit ==
    /\ child.state = "running"
    /\ \E st \in ExitStatuses : child' = [child EXCEPT !.state = "exited", !.status = st]
    /\ UNCHANGED <<epc, workDir, cellarDir, cellarMade, cellarFiles, status, pipe, task, tail, term, eresult>>
    /\ UNCHANGED nonExec

\* Reader futures that are not spawned: they make progress only while
\* run_build awaits them, after child.wait() returned.
ReaderPolledWhenAwaited(pc) ==
    pc \in {"join_stdout", "join_stderr"}

\* run_build, lines 132-133: the readers are tokio::spawn-ed tasks, so they
\* run at every position of run_build from the spawn on, also while it
\* awaits child.wait() and after it returned.
ReaderScheduled(pc) ==
    pc \in {"wait", "join_stdout", "join_stderr", "status", "done"}

\* stream_output_and_capture_tail, one iteration of `while let Some(line)`:
\* echo the line, drop the oldest kept line when 40 are held, keep the line.
\* A line that is not UTF-8 makes next_line() fail and ends the task.
ReaderLine(s) ==
    /\ task[s] = "reading"
    /\ ReaderScheduled(epc)
    /\ pipe[s] # <<>>
    /\ pipe' = [pipe EXCEPT ![s] = Tail(@)]
    /\ IF Head(pipe[s]) = BadUtf8
         THEN /\ task' = [task EXCEPT ![s] = "err"]
              /\ UNCHANGED <<tail, term>>
         ELSE /\ term' = [term EXCEPT ![s] = Append(@, Head(pipe[s]))]
              /\ tail' = [tail EXCEPT ![s] = PushTail(@, Head(pipe[s]))]
              /\ UNCHANGED task
    /\ UNCHANGED <<epc, workDir, cellarDir, cellarMade, cellarFiles, child, status, eresult>>
    /\ UNCHANGED nonExec

\* next_line() returns None at end of file: the task returns Ok(tail).
ReaderEof(s) ==
    /\ task[s] = "reading"
    /\ ReaderScheduled(epc)
    /\ pipe[s] = <<>>
    /\ child.state = "exited"
    /\ task' = [task EXCEPT ![s] = "done"]
    /\ UNCHANGED <<epc, workDir, cellarDir, cellarMade, cellarFiles, child, status, pipe, tail, term, eresult>>
    /\ UNCHANGED nonExec

\* println!/eprintln! panic when the terminal stream cannot be written: the
\* task ends with a JoinError.
ReaderPanic(s) ==
    /\ task[s] = "reading"
    /\ ReaderScheduled(epc)
    /\ pipe[s] # <<>>
    /\ Head(pipe[s]) # BadUtf8
    /\ pipe' = [pipe EXCEPT ![s] = Tail(@)]
    /\ task' = [task EXCEPT ![s] = "panic"]
    /\ UNCHANGED <<epc, workDir, cellarDir, cellarMade, cellarFiles, child, status, tail, term, eresult>>
    /\ UNCHANGED nonExec

\* child.wait().await.map_err(..)?
WaitChild ==
    /\ epc = "wait"
    /\ child.state = "exited"
    /\ \E ok \in BOOLEAN :
          IF ok THEN epc' = "join_stdout" /\ eresult' = eresult /\ status' = child.status
                ELSE Return(ExecutionError(<<"failed waiting for ruby shim">>)) /\ status' = status
    /\ UNCHANGED <<workDir, cellarDir, cellarMade, cellarFiles, child, pipe, task, tail, term>>
    /\ UNCHANGED nonExec

\* stdout_task.await.map_err(join)?.map_err(read)?
JoinStdout ==
    /\ epc = "join_stdout"
    /\ task["stdout"] \in {"done", "err", "panic"}
    /\ CASE task["stdout"] = "done" -> epc' = "join_stderr" /\ eresult' = eresult
         [] task["stdout"] = "panic" -> Return(ExecutionError(<<"failed to join stdout task">>))
         [] task["stdout"] = "err" -> Return(ExecutionError(<<"failed reading stdout">>))
    /\ UNCHANGED <<workDir, cellarDir, cellarMade, cellarFiles, child, status, pipe, task, tail, term>>
    /\ UNCHANGED nonExec

\* stderr_task.await.map_err(join)?.map_err(read)?
JoinStderr ==
    /\ epc = "join_stderr"
    /\ task["stderr"] \in {"done", "err", "panic"}
    /\ CASE task["stderr"] = "done" -> epc' = "status" /\ eresult' = eresult
         [] task["stderr"] = "panic" -> Return(ExecutionError(<<"failed to join stderr task">>))
         [] task["stderr"] = "err" -> Return(ExecutionError(<<"failed reading stderr">>))
    /\ UNCHANGED <<workDir, cellarDir, cellarMade, cellarFiles, child, status, pipe, task, tail, term>>
    /\ UNCHANGED nonExec

\* The end of run_build and of execute: a failed status returns the failure
\* message; otherwise cleanup_work_dir (remove_dir_all, error dropped) and Ok.
FinishBuild ==
    /\ epc = "status"
    /\ IF ~Success(status)
         THEN /\ Return(ExecutionError(FailureMessage(status, tail["stdout"], tail["stderr"])))
              /\ UNCHANGED workDir
         ELSE /\ \E removed \in BOOLEAN : workDir' = (workDir /\ ~removed)
              /\ Return(Ok)
    /\ UNCHANGED <<cellarDir, cellarMade, cellarFiles, child, status, pipe, task, tail, term>>
    /\ UNCHANGED nonExec

NextExec ==
    \/ PrepareWorkDir
    \/ DownloadSource
    \/ WriteShim
    \/ CreateCellarDir
    \/ FindRuby
    \/ SpawnChild
    \/ ChildWrite
    \/ ChildInstall
    \/ ChildExit
    \/ \E s \in Streams : ReaderLine(s)
    \/ \E s \in Streams : ReaderEof(s)
    \/ \E s \in Streams : ReaderPanic(s)
    \/ WaitChild
    \/ JoinStdout
    \/ JoinStderr
    \/ FinishBuild

SpecExec ==
    InitExec /\ [][NextExec]_vars

\* The runtime keeps polling run_build and the two spawned tasks: a step of
\* one of them that stays possible is taken.  Nothing is assumed of the
\* interpreter.
FairExec ==
    /\ WF_vars(WaitChild)
    /\ WF_vars(JoinStdout)
    /\ WF_vars(JoinStderr)
    /\ WF_vars(FinishBuild)
    /\ \A s \in Streams : WF_vars(ReaderLine(s) \/ ReaderPanic(s))
    /\ \A s \in Streams : WF_vars(ReaderEof(s))

SpecExecFair ==
    InitExec /\ [][NextExec]_vars /\ FairExec

\* The executor before any build was asked for.
IdleExec ==
    /\ epc = "idle"
    /\ workDir = FALSE
    /\ cellarDir = FALSE
    /\ cellarMade = FALSE
    /\ cellarFiles = FALSE
    /\ child = NoChild
    /\ status = NoStatus
    /\ pipe = [s \in Streams |-> <<>>]
    /\ task = [s \in Streams |-> "none"]
    /\ tail = [s \in Streams |-> <<>>]
    /\ term = [s \in Streams |-> <<>>]
    /\ eresult = NoResult

(***************************************************************************)
(* The reader tasks of run_build on long outputs: the interpreter prints   *)
(* numbered lines, more of them than a tail buffer holds.                  *)
(***************************************************************************)
MaxStreamLines == 41

\* The state right after run_build spawned the interpreter and the tasks.
InitTail ==
    /\ IdleUninstall
    /\ IdleParse
    /\ IdleBundle
    /\ IdleCli
    /\ epc = "wait"
    /\ workDir = TRUE
    /\ cellarDir = TRUE
    /\ cellarMade = TRUE
    /\ cellarFiles = FALSE
    /\ child = [NoChild EXCEPT !.state = "running"]
    /\ status = NoStatus
    /\ pipe = [s \in Streams |-> <<>>]
    /\ task = [s \in Streams |-> "reading"]
    /\ tail = [s \in Streams |-> <<>>]
    /\ term = [s \in Streams |-> <<>>]
    /\ eresult = NoResult

\* The interpreter prints its next line on one of its streams; the text of
\* the k-th line of a stream is the number k.  The write blocks while the
\* pipe is full.
ChildPrint ==
    /\ child.state = "running"
    /\ \E s \in Streams :
          /\ child.wrote[s] < MaxStreamLines
          /\ Len(pipe[s]) < PipeCapacity
          /\ child' = [child EXCEPT !.wrote[s] = @ + 1]
          /\ pipe' = [pipe EXCEPT ![s] = Append(@, ToString(child.wrote[s] + 1))]
    /\ UNCHANGED <<epc, workDir, cellarDir, cellarMade, cellarFiles, status, task, tail, term, eresult>>
    /\ UNCHANGED nonExec

NextTail ==
    \/ ChildPrint
    \/ ChildExit
    \/ \E s \in Streams : ReaderLine(s)
    \/ \E s \in Streams : ReaderEof(s)
    \/ \E s \in Streams : ReaderPanic(s)

SpecTail ==
    InitTail /\ [][NextTail]_vars

(***************************************************************************)
(* Manifest lines: load_manifest's loop body applied to one line.          *)
(***************************************************************************)
MaxBodyLen == 2

BodyChars == {"a", SQ}

LeadParts == {<<>>, <<SP>>}
WordParts == {<<>>, KwTap, KwBrew, KwCask, <<"j", "q">>}
SepParts == {<<>>, <<SP>>, <<TAB>>}
QuoteParts == {<<>>, <<DQ>>, <<SQ>>}
TrailParts == {<<>>, <<SP>>, <<HASH, "c">>, <<",", "x">>}

\* Lines made of an optional indentation, a word, a separator, an opening
\* quote, a body, a closing quote and a trailer.
LinePool ==
    {lead \o word \o sep \o q1 \o body \o q2 \o trail :
        lead \in LeadParts, word \in WordParts, sep \in SepParts,
        q1 \in QuoteParts, body \in SeqsUpTo(BodyChars, MaxBodyLen),
        q2 \in QuoteParts, trail \in TrailParts}

InitParse ==
    /\ IdleUninstall
    /\ line \in LinePool
    /\ entry = None
    /\ ppc = "input"
    /\ IdleExec
    /\ IdleBundle
    /\ IdleCli

ParseLine ==
    /\ ppc = "input"
    /\ entry' = ManifestLineEntry(line)
    /\ ppc' = "parsed"
    /\ UNCHANGED line
    /\ UNCHANGED nonParse

NextParse ==
    ParseLine

SpecParse ==
    InitParse /\ [][NextParse]_vars

(***************************************************************************)
(* bundle install / bundle dump (bundle.rs).                               *)
(***************************************************************************)
MaxInstalled == 2
MaxManifestLines == 2

\* Names of the formulas in the index.
NamePool == {<<"j", "q">>, <<"a">>, KwTap}

\* Lists of distinct names of length at most n.
DistinctSeqs(S, n) ==
    {q \in SeqsUpTo(S, n) : \A i, j \in 1..Len(q) : i # j => q[i] # q[j]}

\* Lines of the manifests a user supplies.
ManifestLines ==
    { <<>>,
      <<HASH, SP, "c">>,
      <<"j", "q">>,
      <<"a">>,
      KwBrew \o <<SP, DQ, "j", "q", DQ>>,
      KwCask \o <<SP, SQ, "a", SQ>>,
      KwTap \o <<SP, DQ, "x", DQ>>,
      <<SP, "j", "q", SP, HASH, "c">> }

ManifestFiles ==
    {NoFile} \cup
    {[exists |-> TRUE, content |-> Concat([i \in 1..Len(ls) |-> ls[i] \o <<NL>>])] :
        ls \in SeqsUpTo(ManifestLines, MaxManifestLines)}

InitBundle ==
    /\ IdleUninstall
    /\ installed \in DistinctSeqs(NamePool, MaxInstalled)
    /\ manifest \in ManifestFiles
    /\ bcmd = "none"
    /\ bpc = "idle"
    /\ loaded = NoLoad
    /\ todo = <<>>
    /\ attempted = <<>>
    /\ dumpOf = None
    /\ dforce = FALSE
    /\ listed = FALSE
    /\ bresult = [kind |-> "none", message |-> <<>>]
    /\ IdleExec
    /\ IdleParse
    /\ IdleCli

CommandMayStart ==
    bpc \in {"idle", "returned"}

\* dump_to_file without the check of line 55.
OverwritesSilently(exists, force) ==
    FALSE

\* dump_to_file, line 55: `file_path.exists() && !force`
RefusesToOverwrite(exists, force) ==
    exists /\ ~force

\* dump_to_file(installer, file_path, force): the refusal returns before
\* list_installed is called; fs::write creates or truncates the file and may
\* fail before or after doing so.
DumpToFile ==
    /\ CommandMayStart
    /\ bcmd' = "dump"
    /\ bpc' = "returned"
    /\ \E force \in BOOLEAN, listOk \in BOOLEAN, written \in {"all", "none", "truncated"} :
          /\ dforce' = force
          /\ IF RefusesToOverwrite(manifest.exists, force)
                THEN /\ bresult' = [kind |-> "FileError", message |-> MsgExists]
                     /\ listed' = FALSE
                     /\ UNCHANGED <<manifest, dumpOf>>
              ELSE IF ~listOk
                THEN /\ bresult' = [kind |-> "StoreError", message |-> <<"list_installed failed">>]
                     /\ listed' = TRUE
                     /\ UNCHANGED <<manifest, dumpOf>>
              ELSE IF written = "all"
                THEN /\ manifest' = [exists |-> TRUE, content |-> DumpContent(installed)]
                     /\ dumpOf' = Some(installed)
                     /\ listed' = TRUE
                     /\ bresult' = [kind |-> "Ok", message |-> <<>>]
              ELSE IF written = "truncated"
                THEN /\ manifest' = [exists |-> TRUE, content |-> <<>>]
                     /\ dumpOf' = None
                     /\ listed' = TRUE
                     /\ bresult' = [kind |-> "FileError", message |-> MsgWriteFailed]
                ELSE /\ bresult' = [kind |-> "FileError", message |-> MsgWriteFailed]
                     /\ listed' = TRUE
                     /\ UNCHANGED <<manifest, dumpOf>>
    /\ UNCHANGED <<installed, loaded, todo, attempted>>
    /\ UNCHANGED nonBundle

\* install_from_file: `let formulas = load_manifest(manifest_path)?;`
InstallLoad ==
    /\ CommandMayStart
    /\ bcmd' = "install"
    /\ attempted' = <<>>
    /\ loaded' = load_manifest(manifest)
    /\ IF loaded'.kind = "Ok"
         THEN /\ todo' = loaded'.value
              /\ bpc' = "loop"
              /\ bresult' = [kind |-> "none", message |-> <<>>]
         ELSE /\ todo' = <<>>
              /\ bpc' = "returned"
              /\ bresult' = [kind |-> loaded'.kind, message |-> loaded'.message]
    /\ UNCHANGED <<installed, manifest, dumpOf, dforce, listed>>
    /\ UNCHANGED nonBundle

\* install::execute(installer, vec![formula], ..): a formula of the index is
\* installed (a record is added unless one exists), or the install fails.
InstallExecute(formula, ok) ==
    IF ok /\ formula \in NamePool
      THEN [kind |-> "Ok",
            installed |-> IF formula \in Range(installed) THEN installed
                          ELSE Append(installed, formula)]
      ELSE [kind |-> "InstallError", installed |-> installed]

\* The loop body with the result of install::execute dropped.
ContinuesAfterError(r) ==
    TRUE

\* install_from_file, line 39: the `?` on install::execute(..).await leaves
\* the loop and the function unless the install returned Ok.
ContinuesAfter(r) ==
    r.kind = "Ok"

\* install_from_file: one iteration of `for formula in formulas`.
InstallNext ==
    /\ bpc = "loop"
    /\ todo # <<>>
    /\ attempted' = Append(attempted, Head(todo))
    /\ \E ok \in BOOLEAN :
          LET r == InstallExecute(Head(todo), ok)
          IN  /\ installed' = r.installed
              /\ IF ContinuesAfter(r)
                   THEN /\ todo' = Tail(todo)
                        /\ UNCHANGED <<bpc, bresult>>
                   ELSE /\ bpc' = "returned"
                        /\ bresult' = [kind |-> r.kind, message |-> <<"install failed">>]
                        /\ UNCHANGED todo
    /\ UNCHANGED <<manifest, bcmd, loaded, dumpOf, dforce, listed>>
    /\ UNCHANGED nonBundle

\* install_from_file: the loop is over, Ok(()).
InstallDone ==
    /\ bpc = "loop"
    /\ todo = <<>>
    /\ bpc' = "returned"
    /\ bresult' = [kind |-> "Ok", message |-> <<>>]
    /\ UNCHANGED <<installed, manifest, bcmd, loaded, todo, attempted, dumpOf,
                   dforce, listed>>
    /\ UNCHANGED nonBundle

NextBundle ==
    \/ DumpToFile
    \/ InstallLoad
    \/ InstallNext
    \/ InstallDone

SpecBundle ==
    InitBundle /\ [][NextBundle]_vars

(***************************************************************************)
(* uninstall (commands/uninstall.rs).                                      *)
(***************************************************************************)
\* Values of the `formula` argument.
UninstallArgs ==
    {None} \cup {Some(n) : n \in NamePool \cup {<<"x">>}}

\* q without its elements equal to x.
RECURSIVE Without(_, _)
Without(q, x) ==
    IF q = <<>> THEN <<>>
    ELSE IF Head(q) = x THEN Without(Tail(q), x)
    ELSE <<Head(q)>> \o Without(Tail(q), x)

\* installer.uninstall(name): the record of an installed formula is
\* deleted, or the removal fails and the installed-set stays as it is; a
\* formula that is not installed is an error.
InstallerUninstall(name, ok) ==
    IF ok /\ name \in Range(installed)
      THEN [kind |-> "Ok", installed |-> Without(installed, name)]
      ELSE [kind |-> IF name \in Range(installed) THEN "StoreError" ELSE "NotInstalled",
            installed |-> installed]

InitUninstall ==
    /\ IdleExec
    /\ IdleParse
    /\ IdleCli
    /\ installed \in DistinctSeqs(NamePool, MaxInstalled)
    /\ manifest = NoFile
    /\ bcmd = "none"
    /\ bpc = "idle"
    /\ loaded = NoLoad
    /\ todo = <<>>
    /\ attempted = <<>>
    /\ dumpOf = None
    /\ dforce = FALSE
    /\ listed = FALSE
    /\ bresult = [kind |-> "none", message |-> <<>>]
    /\ uformula \in UninstallArgs
    /\ upc = "start"
    /\ ulist = None
    /\ utodo = <<>>
    /\ ucalls = <<>>
    /\ uresult = NoResult

\* execute, lines 8-20: `Some(name)`, one removal.
UninstallOne ==
    /\ upc = "start"
    /\ uformula.some
    /\ ucalls' = Append(ucalls, uformula.v)
    /\ upc' = "returned"
    /\ \E ok \in BOOLEAN :
          LET r == InstallerUninstall(uformula.v, ok)
          IN  /\ installed' = r.installed
              /\ uresult' = IF r.kind = "Ok" THEN Ok
                             ELSE [kind |-> r.kind, message |-> <<"uninstall failed">>]
    /\ UNCHANGED <<uformula, ulist, utodo>>
    /\ UNCHANGED nonUninstall

\* execute, lines 22-32: `None`; list_installed()?, and the early return
\* when nothing is installed.
UninstallList ==
    /\ upc = "start"
    /\ ~uformula.some
    /\ \E ok \in BOOLEAN :
          IF ~ok
            THEN /\ uresult' = [kind |-> "StoreError", message |-> <<"list_installed failed">>]
                 /\ upc' = "returned"
                 /\ UNCHANGED <<ulist, utodo>>
          ELSE IF installed = <<>>
            THEN /\ ulist' = Some(installed)
                 /\ uresult' = Ok
                 /\ upc' = "returned"
                 /\ UNCHANGED utodo
            ELSE /\ ulist' = Some(installed)
                 /\ utodo' = installed
                 /\ upc' = "loop"
                 /\ UNCHANGED uresult
    /\ UNCHANGED <<installed, uformula, ucalls>>
    /\ UNCHANGED nonUninstall

\* The loop body with the result of installer.uninstall dropped.
RemovalContinuesAfterError(r) ==
    TRUE

\* execute, line 36: the `?` on installer.uninstall(&keg.name) leaves the
\* loop and the function unless the removal returned Ok.
RemovalContinuesAfter(r) ==
    r.kind = "Ok"

\* execute, lines 34-38: one iteration of `for keg in installed`.
UninstallNext ==
    /\ upc = "loop"
    /\ utodo # <<>>
    /\ ucalls' = Append(ucalls, Head(utodo))
    /\ \E ok \in BOOLEAN :
          LET r == InstallerUninstall(Head(utodo), ok)
          IN  /\ installed' = r.installed
              /\ IF RemovalContinuesAfter(r)
                   THEN /\ utodo' = Tail(utodo)
                        /\ UNCHANGED <<upc, uresult>>
                   ELSE /\ upc' = "returned"
                        /\ uresult' = [kind |-> r.kind, message |-> <<"uninstall failed">>]
                        /\ UNCHANGED utodo
    /\ UNCHANGED <<uformula, ulist>>
    /\ UNCHANGED nonUninstall

\* execute, lines 40-43: the loop is over, Ok(()).
UninstallDone ==
    /\ upc = "loop"
    /\ utodo = <<>>
    /\ upc' = "returned"
    /\ uresult' = Ok
    /\ UNCHANGED <<installed, uformula, ulist, utodo, ucalls>>
    /\ UNCHANGED nonUninstall

NextUninstall ==
    \/ UninstallOne
    \/ UninstallList
    \/ UninstallNext
    \/ UninstallDone

SpecUninstall ==
    InitUninstall /\ [][NextUninstall]_vars

(***************************************************************************)
(* main and run (main.rs), ensure_init and run_init (init.rs), reset       *)
(* (commands/reset.rs).                                                    *)
(***************************************************************************)
MaxDigits == 2

Commands == {"completion", "init", "reset", "list", "install"}

DirStates == {"absent", "readonly", "writable"}

\* 18446744073709551616 = usize::MAX + 1
UsizeMaxPlusOne ==
    SubSeq(UsizeMax, 1, 19) \o <<"6">>

\* Values given to --concurrency.
ConcurrencyTexts ==
    {sign \o ds : sign \in {<<>>, <<"+">>, <<"-">>},
                  ds \in SeqsUpTo({"0", "1", "4"}, MaxDigits)}
    \cup {UsizeMax, UsizeMaxPlusOne, <<"a">>, <<"4", "a">>}

\* Lines typed at a prompt; <<>> is end of input.
Answers ==
    { <<>>, <<NL>>, <<"y", NL>>, <<"Y", NL>>, <<"y", "e", "s", NL>>,
      <<"Y", "E", "S", NL>>, <<"n", NL>>, <<"n", "o", NL>>, <<SP, "y", NL>> }

NoCli ==
    [concurrency |-> <<>>, auto_init |-> FALSE, command |-> "none", yes |-> FALSE]

InitCli ==
    /\ IdleUninstall
    /\ argv \in [command : Commands,
                 concurrency : {None} \cup {Some(t) : t \in ConcurrencyTexts},
                 auto_init : BOOLEAN,
                 yes : BOOLEAN]
    /\ cpc = "parse"
    /\ cli = NoCli
    /\ rootDir \in DirStates
    /\ prefixDir \in DirStates
    /\ prompts = <<>>
    /\ stdinLog = <<>>
    /\ initRuns = 0
    /\ installerWith = None
    /\ bodyRuns = 0
    /\ cresult = NoResult
    /\ exitCode = -1
    /\ stderrLog = <<>>
    /\ IdleExec
    /\ IdleParse
    /\ IdleBundle

\* main: Cli::parse().  clap runs the value parser of --concurrency on the
\* given text or on the default; on an error it prints it and exits with 2.
ParseArgs ==
    /\ cpc = "parse"
    /\ LET text == IF argv.concurrency.some THEN argv.concurrency.v ELSE DefaultConcurrency
           r == parse_concurrency(text)
       IN  IF r.ok
             THEN /\ cli' = [concurrency |-> r.v, auto_init |-> argv.auto_init,
                             command |-> argv.command, yes |-> argv.yes]
                  /\ cpc' = "run"
                  /\ UNCHANGED <<exitCode, stderrLog>>
             ELSE /\ stderrLog' = Append(stderrLog, r.message)
                  /\ exitCode' = 2
                  /\ cpc' = "exited"
                  /\ UNCHANGED cli
    /\ UNCHANGED <<argv, rootDir, prefixDir, prompts, stdinLog, initRuns,
                   installerWith, bodyRuns, cresult>>
    /\ UNCHANGED nonCli

\* run, lines 25-38: completion and init return at once, reset skips
\* ensure_init, every other command goes through ensure_init.
RunDispatch ==
    /\ cpc = "run"
    /\ CASE cli.command = "completion" -> cpc' = "return" /\ cresult' = Ok
         [] cli.command = "init" -> cpc' = "init_cmd" /\ cresult' = cresult
         [] cli.command = "reset" -> cpc' = "create_installer" /\ cresult' = cresult
         [] OTHER -> cpc' = "ensure_init" /\ cresult' = cresult
    /\ UNCHANGED <<argv, cli, rootDir, prefixDir, prompts, stdinLog, initRuns,
                   installerWith, bodyRuns, exitCode, stderrLog>>
    /\ UNCHANGED nonCli

\* ensure_init, lines 197-211: return Ok when nothing is needed, otherwise
\* print the note and the prompt.
EnsureInitCheck ==
    /\ cpc = "ensure_init"
    /\ IF ~needs_init(rootDir, prefixDir)
         THEN /\ cpc' = "create_installer"
              /\ UNCHANGED prompts
         ELSE /\ prompts' = Append(prompts, PromptInit)
              /\ cpc' = "ensure_read"
    /\ UNCHANGED <<argv, cli, rootDir, prefixDir, stdinLog, initRuns,
                   installerWith, bodyRuns, cresult, exitCode, stderrLog>>
    /\ UNCHANGED nonCli

\* ensure_init, lines 213-221: read the answer; anything but an empty line,
\* y or yes returns StoreCorruption.  A failed read panics in the unwrap of
\* line 214: the panic message goes to stderr and the process ends with 101.
EnsureInitRead ==
    /\ cpc = "ensure_read"
    /\ \E input \in Answers \cup {ReadFailed} :
          /\ stdinLog' = Append(stdinLog, input)
          /\ IF input = ReadFailed
                THEN /\ stderrLog' = Append(stderrLog, MsgPanicked)
                     /\ exitCode' = 101
                     /\ cpc' = "exited"
                     /\ UNCHANGED cresult
              ELSE IF Declines(input)
                THEN /\ cresult' = StoreCorruption(<<"Initialization required. Run 'zb init' first.">>)
                     /\ cpc' = "return"
                     /\ UNCHANGED <<exitCode, stderrLog>>
                ELSE /\ cpc' = "ensure_run_init"
                     /\ UNCHANGED <<cresult, exitCode, stderrLog>>
    /\ UNCHANGED <<argv, cli, rootDir, prefixDir, prompts, initRuns,
                   installerWith, bodyRuns>>
    /\ UNCHANGED nonCli

\* What run_init can make of a directory: it is created or made writable,
\* never removed.
InitOutcomes(d) ==
    CASE d = "absent" -> {"absent", "readonly", "writable"}
      [] d = "readonly" -> {"readonly", "writable"}
      [] OTHER -> {"writable"}

\* run_init(root, prefix), called by ensure_init, by the init command and by
\* reset: on success both directories exist and are writable; a failure
\* (mkdir, chown, HOME not set) leaves what was created so far, the prefix
\* being touched only after the root exists.
RunInit ==
    /\ cpc \in {"ensure_run_init", "init_cmd", "reset_init"}
    /\ initRuns' = initRuns + 1
    /\ \E ok \in BOOLEAN :
          IF ok
            THEN /\ rootDir' = "writable"
                 /\ prefixDir' = "writable"
                 /\ IF cpc = "ensure_run_init"
                      THEN cpc' = "create_installer" /\ UNCHANGED cresult
                      ELSE cpc' = "return" /\ cresult' = Ok
            ELSE /\ \E r \in InitOutcomes(rootDir), p \in InitOutcomes(prefixDir) :
                       /\ (p # prefixDir => r # "absent")
                       /\ rootDir' = r
                       /\ prefixDir' = p
                 /\ cresult' = StoreCorruption(<<"run_init failed">>)
                 /\ cpc' = "return"
    /\ UNCHANGED <<argv, cli, prompts, stdinLog, installerWith, bodyRuns,
                   exitCode, stderrLog>>
    /\ UNCHANGED nonCli

\* run, line 40: create_installer(&root, &prefix, cli.concurrency)?
CreateInstaller ==
    /\ cpc = "create_installer"
    /\ installerWith' = Some(cli.concurrency)
    /\ \E ok \in BOOLEAN :
          IF ok THEN cpc' = (IF cli.command = "reset" THEN "reset_check" ELSE "body")
                     /\ UNCHANGED cresult
                ELSE cpc' = "return"
                     /\ cresult' = [kind |-> "InstallerError", message |-> <<"create_installer failed">>]
    /\ UNCHANGED <<argv, cli, rootDir, prefixDir, prompts, stdinLog, initRuns,
                   bodyRuns, exitCode, stderrLog>>
    /\ UNCHANGED nonCli

\* run, lines 42-54: the body of install, uninstall, migrate, list, info, gc.
CommandBody ==
    /\ cpc = "body"
    /\ bodyRuns' = bodyRuns + 1
    /\ cpc' = "return"
    /\ \E ok \in BOOLEAN :
          cresult' = IF ok THEN Ok ELSE [kind |-> "CommandError", message |-> <<"command failed">>]
    /\ UNCHANGED <<argv, cli, rootDir, prefixDir, prompts, stdinLog, initRuns,
                   installerWith, exitCode, stderrLog>>
    /\ UNCHANGED nonCli

\* reset::execute, lines 9-30 up to the prompt.
ResetCheck ==
    /\ cpc = "reset_check"
    /\ IF rootDir = "absent" /\ prefixDir = "absent"
         THEN cpc' = "return" /\ cresult' = Ok /\ UNCHANGED prompts
         ELSE IF ~cli.yes
           THEN cpc' = "reset_read" /\ prompts' = Append(prompts, PromptReset) /\ UNCHANGED cresult
           ELSE cpc' = "reset_remove" /\ UNCHANGED <<prompts, cresult>>
    /\ UNCHANGED <<argv, cli, rootDir, prefixDir, stdinLog, initRuns,
                   installerWith, bodyRuns, exitCode, stderrLog>>
    /\ UNCHANGED nonCli

\* The reading of the answer of ensure_init: an empty line confirms too.
ConfirmsByDefault(input) ==
    ~Declines(input)

\* reset::execute, line 26: `input.trim().eq_ignore_ascii_case("y")`
Confirms(input) ==
    EqIgnoreAsciiCase(Trim(input), <<"y">>)

\* reset::execute, lines 24-29: only an answer of y continues.  A failed
\* read panics in the unwrap of line 25.
ResetRead ==
    /\ cpc = "reset_read"
    /\ \E input \in Answers \cup {ReadFailed} :
          /\ stdinLog' = Append(stdinLog, input)
          /\ IF input = ReadFailed
                THEN /\ stderrLog' = Append(stderrLog, MsgPanicked)
                     /\ exitCode' = 101
                     /\ cpc' = "exited"
                     /\ UNCHANGED cresult
              ELSE IF ~Confirms(input)
                THEN cpc' = "return" /\ cresult' = Ok /\ UNCHANGED <<exitCode, stderrLog>>
                ELSE cpc' = "reset_remove" /\ UNCHANGED <<cresult, exitCode, stderrLog>>
    /\ UNCHANGED <<argv, cli, rootDir, prefixDir, prompts, initRuns,
                   installerWith, bodyRuns>>
    /\ UNCHANGED nonCli

\* reset::execute, lines 32-57: remove root, then prefix; when neither
\* remove_dir_all nor `sudo rm -rf` removes a directory the process exits
\* with 1.
ResetRemove ==
    /\ cpc = "reset_remove"
    /\ \E rootGone \in BOOLEAN, prefixGone \in BOOLEAN :
          IF rootDir # "absent" /\ ~rootGone
            THEN /\ UNCHANGED <<rootDir, prefixDir>>
                 /\ stderrLog' = Append(stderrLog, <<"Failed to remove root">>)
                 /\ exitCode' = 1
                 /\ cpc' = "exited"
          ELSE IF prefixDir # "absent" /\ ~prefixGone
            THEN /\ rootDir' = "absent"
                 /\ UNCHANGED prefixDir
                 /\ stderrLog' = Append(stderrLog, <<"Failed to remove prefix">>)
                 /\ exitCode' = 1
                 /\ cpc' = "exited"
          ELSE /\ rootDir' = "absent"
               /\ prefixDir' = "absent"
               /\ cpc' = "reset_init"
               /\ UNCHANGED <<exitCode, stderrLog>>
    /\ UNCHANGED <<argv, cli, prompts, stdinLog, initRuns, installerWith,
                   bodyRuns, cresult>>
    /\ UNCHANGED nonCli

\* main, line 19: eprintln!("{} {}", style("error:"), e)
ErrorLine(r) ==
    <<"error:", r.kind>> \o r.message

\* main, lines 18-22: an error is printed on stderr and the process exits
\* with 1; otherwise main returns and the process exits with 0.
MainExit ==
    /\ cpc = "return"
    /\ cpc' = "exited"
    /\ exitCode' = ExitCodeOf(cresult)
    /\ IF cresult.kind = "Ok"
         THEN UNCHANGED stderrLog
         ELSE stderrLog' = Append(stderrLog, ErrorLine(cresult))
    /\ UNCHANGED <<argv, cli, rootDir, prefixDir, prompts, stdinLog, initRuns,
                   installerWith, bodyRuns, cresult>>
    /\ UNCHANGED nonCli

NextCli ==
    \/ ParseArgs
    \/ RunDispatch
    \/ EnsureInitCheck
    \/ EnsureInitRead
    \/ RunInit
    \/ CreateInstaller
    \/ CommandBody
    \/ ResetCheck
    \/ ResetRead
    \/ ResetRemove
    \/ MainExit

SpecCli ==
    InitCli /\ [][NextCli]_vars

(***************************************************************************)
(* Properties of the build executor.                                       *)
(***************************************************************************)
Returned ==
    epc = "done"

\* The interpreter ended by exiting with a non-zero code.
ExitedNonZero ==
    child.state = "exited" /\ ~child.status.signal /\ child.status.code # 0

\* C1: once execute has returned, with Ok or with any error, the work
\* directory <prefix>/tmp/build/<name>/ no longer exists.
C1_WorkDirRemovedOnEveryExit ==
    Returned => ~workDir

\* C4: execute reports success only when the interpreter exited with code 0
\* and files are present under CELLAR/<name>/<version>/.
C4_SuccessNeedsExitZeroAndFiles ==
    (Returned /\ eresult = Ok) => (Success(child.status) /\ cellarFiles)

BuildFailureHeader ==
    <<"source build failed (exit code: ">>

\* What the claim requires of the error for a non-zero exit: an
\* ExecutionError naming the exit code and carrying the stderr tail, the
\* stdout tail taking its place exactly when the stderr tail is empty.
ReportsExitAndTail ==
    /\ eresult.kind = "ExecutionError"
    /\ Contains(eresult.message, <<ToString(child.status.code)>>)
    /\ Contains(eresult.message, Join(tail["stderr"], "\n"))
    /\ tail["stderr"] = <<>> => Contains(eresult.message, Join(tail["stdout"], "\n"))
    /\ tail["stderr"] # <<>> => \A l \in Range(tail["stdout"]) : l \notin Range(eresult.message)

\* An exit with code 0 never yields the build-failure error.
ExitZeroNeverFails ==
    (Returned /\ status # NoStatus /\ Success(status))
        => ~Contains(eresult.message, BuildFailureHeader)

OutputCaptured ==
    /\ status # NoStatus
    /\ \A s \in Streams : task[s] = "done"

C6_FailedBuildLeavesNoKeg ==
    (Returned /\ ExitedNonZero /\ eresult.kind = "ExecutionError")
        => ~(cellarDir /\ cellarMade)

\* The lines the interpreter has printed on stream s so far.
Produced(s) ==
    [k \in 1..child.wrote[s] |-> ToString(k)]

\* The last min(Len(q), m) elements of q.
LastLines(q, m) ==
    SubSeq(q, Len(q) - (IF Len(q) < m THEN Len(q) ELSE m) + 1, Len(q))

\* C12: for each stream the tail buffer never holds more than 40 lines and
\* always is the last min(k, 40) of the k lines echoed so far, every line
\* read being echoed to the terminal; when the stream has ended the lines
\* echoed are the n lines produced and the tail is the last min(n, 40) of
\* them, in their order.
C12_TailHoldsLastFortyLines ==
    \A s \in Streams :
        /\ Len(tail[s]) <= TAIL_LINES
        /\ tail[s] = LastLines(term[s], TAIL_LINES)
        /\ task[s] = "done" =>
              /\ term[s] = Produced(s)
              /\ tail[s] = LastLines(Produced(s), TAIL_LINES)

\* A stream of 41 lines has ended: line 1 was echoed and is not kept.
C12_Witness ==
    /\ task["stderr"] = "done"
    /\ child.wrote["stderr"] = 41
    /\ Len(term["stderr"]) = 41
    /\ Len(tail["stderr"]) = TAIL_LINES
    /\ tail["stderr"][1] = "2"
    /\ term["stderr"][1] = "1"

(***************************************************************************)
(* Properties of manifest parsing and of the bundle command.               *)
(***************************************************************************)
NoDuplicates(q) ==
    \A i, j \in 1..Len(q) : i # j => q[i] # q[j]

\* The comment-free, trimmed remainder of the parsed line.
Remainder ==
    Trim(BeforeHash(line))

\* rem is exactly kw "X": the keyword, one space and X in double quotes.
IsDoubleQuoted(rem, kw) ==
    /\ Len(rem) >= Len(kw) + 3
    /\ StartsWith(rem, kw \o <<SP, DQ>>)
    /\ rem[Len(rem)] = DQ
    /\ \A p \in (Len(kw) + 3)..(Len(rem) - 1) : rem[p] # DQ

QuotedName(rem, kw) ==
    SubSeq(rem, Len(kw) + 3, Len(rem) - 1)

\* C7 as stated: an empty remainder gives no entry, tap "X" gives no entry,
\* brew "X" gives X, cask "X" gives cask:X and every other non-empty
\* remainder is the entry itself.
C7_LineParsedAsStated ==
    ppc = "parsed" =>
        /\ Remainder = <<>> => entry = None
        /\ IsDoubleQuoted(Remainder, KwTap) => entry = None
        /\ IsDoubleQuoted(Remainder, KwBrew) => entry = Some(QuotedName(Remainder, KwBrew))
        /\ IsDoubleQuoted(Remainder, KwCask)
              => entry = Some(KwCask \o <<":">> \o QuotedName(Remainder, KwCask))
        /\ (/\ Remainder # <<>>
            /\ ~IsDoubleQuoted(Remainder, KwTap)
            /\ ~IsDoubleQuoted(Remainder, KwBrew)
            /\ ~IsDoubleQuoted(Remainder, KwCask)) => entry = Some(Remainder)

\* rem is kw, optional whitespace, a quote character at i, text without that
\* character, and the same character again at j; anything may follow.
QuotedAt(rem, kw, i, j) ==
    /\ StartsWith(rem, kw)
    /\ Len(kw) < i /\ i < j /\ j <= Len(rem)
    /\ \A p \in (Len(kw) + 1)..(i - 1) : IsWhitespace(rem[p])
    /\ rem[i] \in {DQ, SQ}
    /\ rem[j] = rem[i]
    /\ \A p \in (i + 1)..(j - 1) : rem[p] # rem[i]

HasQuoted(rem, kw) ==
    \E i, j \in 1..Len(rem) : QuotedAt(rem, kw, i, j)

\* C7 (amended): an empty remainder gives no entry; a remainder starting
\* with `tap ` gives no entry; cask, optional whitespace and X between two
\* equal quote characters (single or double, anything may follow the closing
\* one) gives cask:X; the same with brew gives X; every other non-empty
\* remainder is the entry itself.
C7_LineParsedByDirective ==
    ppc = "parsed" =>
        /\ Remainder = <<>> => entry = None
        /\ StartsWith(Remainder, KwTap \o <<SP>>) => entry = None
        /\ \A i, j \in 1..Len(Remainder) :
              /\ QuotedAt(Remainder, KwCask, i, j)
                    => entry = Some(KwCask \o <<":">> \o SubSeq(Remainder, i + 1, j - 1))
              /\ QuotedAt(Remainder, KwBrew, i, j)
                    => entry = Some(SubSeq(Remainder, i + 1, j - 1))
        /\ (/\ Remainder # <<>>
            /\ ~StartsWith(Remainder, KwTap \o <<SP>>)
            /\ ~HasQuoted(Remainder, KwCask)
            /\ ~HasQuoted(Remainder, KwBrew)) => entry = Some(Remainder)

\* The line `cask 'a'` followed by a comment has been parsed to cask:a.
C7_Witness ==
    /\ ppc = "parsed"
    /\ line = KwCask \o <<SP, SQ, "a", SQ, HASH, "c">>
    /\ entry = Some(KwCask \o <<":", "a">>)

\* load_manifest has returned in the running or last bundle install.
Loaded ==
    bcmd = "install"

\* The entries of the manifest's lines, line by line.
LineEntries ==
    LET lns == Lines(manifest.content)
    IN  [k \in 1..Len(lns) |-> ManifestLineEntry(lns[k])]

FirstLineOf(e) ==
    CHOOSE k \in 1..Len(LineEntries) :
        /\ LineEntries[k] = Some(e)
        /\ \A m \in 1..(k - 1) : LineEntries[m] # Some(e)

\* C2 as stated: parsing the file written by bundle dump yields exactly the
\* set of names dump wrote, also when that set is empty.
C2_DumpThenLoadYieldsInstalled ==
    (Loaded /\ dumpOf.some) =>
        (loaded.kind = "Ok" /\ Range(loaded.value) = Range(dumpOf.v))

\* C2 (amended): parsing the file written by bundle dump yields exactly the
\* set of names dump wrote when that set is not empty; for the empty set
\* load_manifest returns the FileError of a manifest without formulas.
C2_DumpThenLoadYieldsNonEmptyInstalled ==
    (Loaded /\ dumpOf.some) =>
        IF dumpOf.v # <<>>
          THEN loaded.kind = "Ok" /\ Range(loaded.value) = Range(dumpOf.v)
          ELSE loaded.kind = "FileError" /\ loaded.message = MsgNoFormulas

\* A dump of two installed formulas has been loaded.
C2_Witness ==
    /\ Loaded
    /\ dumpOf.some
    /\ Len(dumpOf.v) >= 2
    /\ loaded.kind = "Ok"

NoFormulaEntries ==
    /\ manifest.exists
    /\ \A k \in 1..Len(LineEntries) : ~LineEntries[k].some

\* C9: for a manifest without formula entries load_manifest returns the
\* FileError, bundle install returns it without handing any formula to the
\* installer, and load_manifest never returns an empty list as success.
C9_EmptyManifestIsFileError ==
    Loaded =>
        /\ NoFormulaEntries =>
              /\ loaded.kind = "FileError"
              /\ bpc = "returned"
              /\ bresult = [kind |-> "FileError", message |-> MsgNoFormulas]
              /\ attempted = <<>>
        /\ loaded.kind = "Ok" => loaded.value # <<>>

\* bundle install has returned on a manifest of comment and tap lines only.
C9_Witness ==
    /\ Loaded
    /\ NoFormulaEntries
    /\ Len(LineEntries) = 2
    /\ bpc = "returned"
    /\ bresult.kind = "FileError"

(***************************************************************************)
(* Properties of the command line and of the bootstrap check.              *)
(***************************************************************************)
\* Number of lines read from standard input.
stdinReads ==
    Len(stdinLog)

\* The command line has been parsed and accepted.
Accepted ==
    cpc # "parse" /\ cli.command # "none"

\* The command line has been parsed and rejected by clap.
Rejected ==
    cpc = "exited" /\ cli.command = "none"

\* The text given to --concurrency is a decimal integer.
GivenInteger ==
    /\ argv.concurrency.some
    /\ argv.concurrency.v # <<>>
    /\ \A i \in 1..Len(argv.concurrency.v) : IsDigit(argv.concurrency.v[i])

GivenValue ==
    StripZeros(argv.concurrency.v)

\* C3: with auto_init set, a command that goes through the bootstrap check
\* prints no confirmation prompt and reads nothing from standard input.
C3_AutoInitSkipsConfirmation ==
    (cli.auto_init /\ cli.command \in {"list", "install"})
        => (PromptInit \notin Range(prompts) /\ stdinReads = 0)

\* Nothing of a command has run: no bootstrap, no installer, no body.
NothingRan ==
    initRuns = 0 /\ installerWith = None /\ bodyRuns = 0

ZeroRejected ==
    (cpc # "parse" /\ GivenInteger /\ GivenValue = <<"0">>)
        => (Rejected /\ stderrLog = <<MsgAtLeastOne>> /\ NothingRan)

DefaultIsTwenty ==
    (cpc # "parse" /\ ~argv.concurrency.some)
        => (Accepted /\ cli.concurrency = <<"2", "0">>)

NeverRunsWithZero ==
    /\ Accepted => cli.concurrency # <<"0">>
    /\ installerWith.some => installerWith.v # <<"0">>
    /\ ~Accepted => NothingRan

\* C10 as stated: 0 is rejected at parse time with the at-least-1 error,
\* every positive integer is accepted unchanged, the default is 20, and no
\* command runs with concurrency 0.
C10_ConcurrencyValidated ==
    /\ ZeroRejected
    /\ (cpc # "parse" /\ GivenInteger /\ GivenValue # <<"0">>)
          => (Accepted /\ cli.concurrency = GivenValue)
    /\ DefaultIsTwenty
    /\ NeverRunsWithZero

\* C10 (amended): 0 is rejected at parse time with the at-least-1 error,
\* every positive integer that fits in usize is accepted unchanged, the
\* default is 20, and no command runs with concurrency 0.
C10_ConcurrencyValidatedWithinUsize ==
    /\ ZeroRejected
    /\ (cpc # "parse" /\ GivenInteger /\ GivenValue # <<"0">> /\ DigitsLeq(GivenValue, UsizeMax))
          => (Accepted /\ cli.concurrency = GivenValue)
    /\ DefaultIsTwenty
    /\ NeverRunsWithZero

\* `--concurrency 0` has been rejected by the argument parser.
C10_Witness ==
    /\ argv.concurrency = Some(<<"0">>)
    /\ Rejected
    /\ exitCode = 2

(***************************************************************************)
(* Properties of the process exit.                                         *)
(***************************************************************************)
ProcessEnded ==
    cpc = "exited"

\* run returned an error.
RunFailed ==
    cresult.kind \notin {"none", "Ok"}

LastStderr ==
    stderrLog[Len(stderrLog)]

\* Exit code 0 exactly when run returned success; exit code 1, after the
\* error was printed on stderr, whenever run returned an error.
ExitFollowsResult ==
    /\ (exitCode = 0) <=> (cresult.kind = "Ok")
    /\ RunFailed => (/\ exitCode = 1
                      /\ stderrLog # <<>>
                      /\ LastStderr = ErrorLine(cresult))

\* C11 as stated: the process ends with 0 exactly when the command returned
\* success, with 1 (the error printed on stderr first) when it returned an
\* error, and never with any other code.
C11_ExitCodeZeroOrOne ==
    ProcessEnded =>
        /\ ExitFollowsResult
        /\ exitCode \in {0, 1}

\* C11 (amended): the process ends with 0 exactly when run returned success
\* and with 1, the error printed on stderr first, when run returned an
\* error or reset could not remove a directory; a command line the argument
\* parser rejects ends it with 2 before anything ran, and a failed read of
\* a confirmation answer ends it by panic with 101; no other code occurs.
C11_ExitCodeFollowsResult ==
    /\ ~ProcessEnded => exitCode = -1
    /\ ProcessEnded =>
        /\ ExitFollowsResult
        /\ exitCode \in {0, 1, 2, 101}
        /\ (exitCode = 1 /\ ~RunFailed)
              => (/\ cli.command = "reset"
                  /\ cresult = NoResult
                  /\ LastStderr \in {<<"Failed to remove root">>, <<"Failed to remove prefix">>})
        /\ (exitCode = 2) <=> Rejected
        /\ Rejected => (NothingRan /\ cresult = NoResult /\ stderrLog # <<>>)
        /\ (exitCode = 101)
              => (/\ Accepted
                  /\ stdinReads = 1
                  /\ cresult = NoResult
                  /\ LastStderr = MsgPanicked
                  /\ bodyRuns = 0)

\* A declined bootstrap has ended the process with 1 after printing the
\* StoreCorruption error.
C11_Witness ==
    /\ ProcessEnded
    /\ cresult.kind = "StoreCorruption"
    /\ exitCode = 1
    /\ LastStderr = ErrorLine(cresult)
    /\ initRuns = 0

(***************************************************************************)
(* Properties of the bootstrap check in front of the commands.             *)
(***************************************************************************)
\* The commands run goes through ensure_init for.
BootstrapCommands ==
    Commands \ {"completion", "init", "reset"}

\* Both directories exist and are writable.
StoreReady ==
    rootDir = "writable" /\ prefixDir = "writable"

\* The answer typed at the first prompt, trimmed and in lower case.
FirstAnswer ==
    LET t == Trim(stdinLog[1])
    IN  [i \in 1..Len(t) |-> ToAsciiLower(t[i])]

\* The user answered the bootstrap prompt with something other than an
\* empty line, y or yes.
UserDeclined ==
    /\ cli.command \in BootstrapCommands
    /\ stdinLog # <<>>
    /\ stdinLog[1] # ReadFailed
    /\ FirstAnswer \notin {<<>>, <<"y">>, <<"y", "e", "s">>}

\* The installer is created and the body runs only with the store ready,
\* after a bootstrap check that either found it ready or initialized it.
BodyOnlyAfterBootstrap ==
    cli.command \in BootstrapCommands =>
        /\ (cpc \in {"create_installer", "body"} \/ installerWith.some \/ bodyRuns > 0)
              => (/\ StoreReady
                  /\ ~UserDeclined
                  /\ (stdinLog = <<>> /\ initRuns = 0) \/ (stdinLog # <<>> /\ initRuns = 1))
        /\ bodyRuns > 0 => installerWith.some

\* A declined bootstrap: StoreCorruption, nothing initialized, nothing run.
DeclineFails ==
    UserDeclined =>
        /\ cresult = StoreCorruption(<<"Initialization required. Run 'zb init' first.">>)
        /\ cpc \in {"return", "exited"}
        /\ cpc = "exited" => exitCode = 1
        /\ ~StoreReady
        /\ NothingRan

\* In a bootstrap command the directories change only in run_init, called
\* after an answer that does not decline; the installer is created right
\* after ensure_init returned Ok and the body right after the installer.
BootstrapStep ==
    cli.command \in BootstrapCommands =>
        /\ (rootDir' # rootDir \/ prefixDir' # prefixDir)
              => (cpc = "ensure_run_init" /\ ~UserDeclined)
        /\ (cpc' = "create_installer" /\ cpc # "create_installer")
              => (cpc \in {"ensure_init", "ensure_run_init"} /\ StoreReady')
        /\ (cpc' = "body" /\ cpc # "body") => cpc = "create_installer"

\* C13: for every command other than completion, init and reset the
\* installer is created and the body runs only after the bootstrap check
\* returned success; when the user declines the initialization the command
\* fails with StoreCorruption, no directory is created and neither the
\* installer nor the body runs.
C13_BodyOnlyAfterBootstrap ==
    /\ [](BodyOnlyAfterBootstrap /\ DeclineFails)
    /\ [][BootstrapStep]_vars

\* `zb install` on a missing root, answered with no, has ended with 1.
C13_Witness ==
    /\ cli.command = "install"
    /\ UserDeclined
    /\ rootDir = "absent"
    /\ cpc = "exited"
    /\ exitCode = 1

(***************************************************************************)
(* Properties of bundle dump.                                              *)
(***************************************************************************)
\* The step is a call of dump_to_file.
DumpStep ==
    bcmd' = "dump"

\* One `brew "<name>"` line per installed record, in the order of the list.
BrewLines(kegs) ==
    [i \in 1..Len(kegs) |-> <<"b", "r", "e", "w", SP, DQ>> \o kegs[i] \o <<DQ>>]

\* An existing file without --force: FileError, the file as it was, the
\* installed-set not read.
RefusedDumpKeepsFile ==
    (DumpStep /\ manifest.exists /\ ~dforce') =>
        /\ bresult' = FileError(MsgExists)
        /\ manifest' = manifest
        /\ ~listed'
        /\ installed' = installed

\* C14 as stated: a dump on an existing file without --force returns a
\* FileError, leaves the file unchanged and does not read the
\* installed-set; every other dump leaves the file holding exactly one
\* brew "<name>" line per installed record.
C14_DumpOverwritesOnlyWithForce ==
    [][/\ RefusedDumpKeepsFile
       /\ (DumpStep /\ ~(manifest.exists /\ ~dforce')) =>
             /\ manifest'.exists
             /\ Lines(manifest'.content) = BrewLines(installed)]_vars

\* C14 (amended): a dump on an existing file without --force returns a
\* FileError, leaves the file unchanged and does not read the
\* installed-set; every other dump reads the installed-set and, when it
\* returns success, leaves the file holding exactly one brew "<name>" line
\* per installed record; when reading the installed-set fails the file is
\* left as it was.
C14_SuccessfulDumpWritesInstalled ==
    [][/\ RefusedDumpKeepsFile
       /\ (DumpStep /\ ~(manifest.exists /\ ~dforce')) =>
             /\ listed'
             /\ bresult'.kind = "Ok" =>
                   /\ manifest'.exists
                   /\ Lines(manifest'.content) = BrewLines(installed)
             /\ bresult'.kind = "StoreError" => manifest' = manifest
             /\ installed' = installed]_vars

\* A dump without --force has been refused on an existing, non-empty file
\* while formulas are installed.
C14_Witness ==
    /\ bcmd = "dump"
    /\ ~dforce
    /\ bresult = FileError(MsgExists)
    /\ manifest.exists
    /\ manifest.content # <<>>
    /\ installed # <<>>
    /\ ~listed

(***************************************************************************)
(* Properties of bundle install.                                           *)
(***************************************************************************)
\* install_from_file is past load_manifest, which returned a list.
Installing ==
    bcmd = "install" /\ loaded.kind = "Ok"

IsPrefix(q, r) ==
    Len(q) <= Len(r) /\ q = SubSeq(r, 1, Len(q))

\* The formulas handed to the installer are the first ones of the manifest
\* in its order, and all but the last of them are installed.
AttemptsInOrder ==
    Installing =>
        /\ IsPrefix(attempted, loaded.value)
        /\ \A i \in 1..(Len(attempted) - 1) : attempted[i] \in Range(installed)

\* What bundle install has done when it returns.
InstallOutcome ==
    (Installing /\ bpc = "returned") =>
        /\ bresult.kind \in {"Ok", "InstallError"}
        /\ bresult.kind = "Ok" =>
              /\ attempted = loaded.value
              /\ Range(attempted) \subseteq Range(installed)
        /\ bresult.kind = "InstallError" =>
              /\ attempted # <<>>
              /\ todo = SubSeq(loaded.value, Len(attempted), Len(loaded.value))

\* An install is started only while no install has failed, it is the next
\* formula of the manifest, and it removes no installed formula.
InstallStep ==
    (bpc = "loop" /\ attempted' # attempted) =>
        /\ bresult.kind = "none"
        /\ Len(attempted) < Len(loaded.value)
        /\ attempted' = Append(attempted, loaded.value[Len(attempted) + 1])
        /\ Range(installed) \subseteq Range(installed')
        /\ bresult'.kind = "InstallError" => installed' = installed

\* C15: bundle install hands the manifest's formulas to the installer one
\* at a time in manifest order, the next one only after the previous one
\* returned success; at the first failure it returns that error, attempts
\* no later formula, and the formulas installed before stay installed.
C15_InstallsInOrderUntilFirstFailure ==
    /\ [](AttemptsInOrder /\ InstallOutcome)
    /\ [][InstallStep]_vars

\* The first of two formulas of a manifest failed: the second was not
\* attempted.
C15_Witness ==
    /\ Installing
    /\ bpc = "returned"
    /\ bresult.kind = "InstallError"
    /\ Len(loaded.value) = 2
    /\ attempted = <<loaded.value[1]>>
    /\ loaded.value[2] \notin Range(installed)

(***************************************************************************)
(* Properties of uninstall.                                                *)
(***************************************************************************)
\* uninstall without a formula name (all) is past list_installed, which
\* returned a list.
UninstallingAll ==
    ~uformula.some /\ ulist.some

\* Removals are called for the first formulas of the list, in its order.
RemovalsInOrder ==
    UninstallingAll => IsPrefix(ucalls, ulist.v)

\* What uninstall of all formulas has done when it returns.
UninstallAllOutcome ==
    (UninstallingAll /\ upc = "returned") =>
        /\ ulist.v = <<>> => (uresult = Ok /\ ucalls = <<>> /\ installed = <<>>)
        /\ (ulist.v # <<>> /\ uresult = Ok) => (installed = <<>> /\ ucalls = ulist.v)
        /\ uresult # Ok =>
              /\ ucalls # <<>>
              /\ \A i \in 1..(Len(ucalls) - 1) : ulist.v[i] \notin Range(installed)
              /\ \A i \in (Len(ucalls) + 1)..Len(ulist.v) : ulist.v[i] \in Range(installed)

\* A removal is called only while no removal has failed.
RemovalStep ==
    (upc = "loop" /\ ucalls' # ucalls) =>
        /\ uresult = NoResult
        /\ ucalls' = Append(ucalls, ulist.v[Len(ucalls) + 1])

\* C16: uninstall of all formulas calls the removals one by one in the
\* order list_installed returned; when all succeed the installed-set is
\* empty; when one fails its error is returned at once, the formulas before
\* it are uninstalled and those after it remain installed; with nothing
\* installed it returns success without calling a removal.
C16_UninstallAllStopsAtFirstFailure ==
    /\ [](RemovalsInOrder /\ UninstallAllOutcome)
    /\ [][RemovalStep]_vars

\* The first of two removals failed: the second formula is still installed
\* and its removal was not called.
C16_Witness ==
    /\ UninstallingAll
    /\ upc = "returned"
    /\ uresult.kind = "StoreError"
    /\ Len(ulist.v) = 2
    /\ ucalls = <<ulist.v[1]>>
    /\ ulist.v[2] \in Range(installed)

(***************************************************************************)
(* Properties of reset.                                                    *)
(***************************************************************************)
ResetRuns ==
    cli.command = "reset"

\* An answer was read at the prompt of reset.
ResetAnswered ==
    /\ ResetRuns
    /\ stdinLog # <<>>
    /\ stdinLog[1] # ReadFailed

\* --yes was given, or the answer is y or Y.
ResetConfirmed ==
    /\ ResetRuns
    /\ cli.yes \/ (ResetAnswered /\ FirstAnswer = <<"y">>)

DirsChange ==
    rootDir' # rootDir \/ prefixDir' # prefixDir

\* An answer other than y: success, nothing initialized.
AbortedResetSucceeds ==
    (ResetAnswered /\ FirstAnswer # <<"y">>) =>
        /\ cresult = Ok
        /\ initRuns = 0
        /\ cpc \in {"return", "exited"}
        /\ cpc = "exited" => exitCode = 0

\* The bootstrap of reset starts with both directories removed, and a
\* reset that succeeded after it leaves both re-created.
ResetRecreates ==
    ResetRuns =>
        /\ cpc = "reset_init" => (rootDir = "absent" /\ prefixDir = "absent" /\ ResetConfirmed)
        /\ (cresult = Ok /\ initRuns > 0) => (ResetConfirmed /\ initRuns = 1 /\ StoreReady)
        /\ (cresult = Ok /\ initRuns = 0)
              => \/ rootDir = "absent" /\ prefixDir = "absent" /\ stdinLog = <<>>
                 \/ ResetAnswered /\ FirstAnswer # <<"y">>

\* In a reset the directories change only after the confirmation: they are
\* removed by the removal loop and created by run_init after it; with
\* neither directory present reset returns Ok at once.
ResetStep ==
    ResetRuns =>
        /\ DirsChange => (ResetConfirmed /\ cpc \in {"reset_remove", "reset_init"})
        /\ (DirsChange /\ cpc = "reset_remove")
              => (rootDir' = "absent" /\ prefixDir' \in {prefixDir, "absent"})
        /\ (cpc = "reset_check" /\ rootDir = "absent" /\ prefixDir = "absent")
              => (cpc' = "return" /\ cresult' = Ok /\ ~DirsChange /\ initRuns' = 0)
        /\ (cpc \in {"return", "exited"}) => ~DirsChange

\* C17: reset removes the root and the prefix only after --yes or an
\* answer of y; after any other answer nothing is removed, no bootstrap
\* runs and it returns success; with neither directory present nothing is
\* removed or created; a confirmed reset that succeeds has removed both
\* directories and the bootstrap has created them again.
C17_ResetDeletesOnlyWhenConfirmed ==
    /\ [](AbortedResetSucceeds /\ ResetRecreates)
    /\ [][ResetStep]_vars

\* A reset answered with Y has removed an existing store and ended with 0
\* after the bootstrap re-created it.
C17_Witness ==
    /\ ResetRuns
    /\ ~cli.yes
    /\ stdinLog = <<<<"Y", NL>>>>
    /\ initRuns = 1
    /\ cresult = Ok
    /\ StoreReady
    /\ cpc = "exited"
    /\ exitCode = 0

(***************************************************************************)
(* Properties of the concurrency of run_build.                             *)
(***************************************************************************)
\* The interpreter was spawned by this call of run_build.
Spawned ==
    child.state # "none"

\* The interpreter cannot write its next line on s: the pipe is full and
\* its reader is still attached.
Blocked(s) ==
    /\ child.state = "running"
    /\ task[s] = "reading"
    /\ Len(pipe[s]) >= PipeCapacity

\* The interpreter has exited and both readers read to end-of-file.
AllOutputRead ==
    /\ child.state = "exited"
    /\ \A s \in Streams : task[s] = "done"

\* A full pipe is drained, and run_build returns after the exit and both
\* ends of file.
ReadersKeepUp ==
    /\ \A s \in Streams : Blocked(s) ~> ~Blocked(s)
    /\ AllOutputRead ~> Returned

\* run_build's result is Ok or the build-failure message.
ResultFromStatus ==
    eresult = Ok \/ Contains(eresult.message, BuildFailureHeader)

\* C18 as stated: the readers drain the pipes while run_build waits, so a
\* full pipe never blocks the interpreter forever; run_build returns once
\* the interpreter has exited and both streams are at end-of-file; every
\* result is computed only after both reader tasks have finished.
C18_ResultOnlyAfterBothReaders ==
    /\ ReadersKeepUp
    /\ []((Returned /\ Spawned) => \A s \in Streams : task[s] # "reading")

\* C18 (amended): the readers drain the pipes while run_build waits, so a
\* full pipe never blocks the interpreter forever; run_build returns once
\* the interpreter has exited and both streams are at end-of-file; the Ok
\* result and the build-failure message with its tail are computed only
\* after wait() returned the status and both reader tasks finished at
\* end-of-file, and any other result after the spawn is the error of
\* wait() or of the first reader task that failed, returned without
\* waiting for a reader that still runs.
C18_StatusResultOnlyAfterBothReaders ==
    /\ ReadersKeepUp
    /\ []((Returned /\ Spawned) =>
            IF ResultFromStatus
              THEN /\ AllOutputRead
                   /\ status = child.status
                   /\ \A s \in Streams : pipe[s] = <<>>
              ELSE /\ eresult.kind = "ExecutionError"
                   /\ \/ status = NoStatus
                      \/ \E s \in Streams : task[s] \in {"err", "panic"})

\* The interpreter is stopped by a full stderr pipe while run_build awaits
\* child.wait().
C18_Witness ==
    /\ epc = "wait"
    /\ Blocked("stderr")
    /\ child.wrote["stderr"] < MaxChildLines
    /\ tail["stderr"] = <<>>

====
